---- MODULE Spec2Model ----
(***************************************************************************)
(* Scraping engine of arbitraje_minorista: the scrape operation, the       *)
(* retry wrapper, the repositories it writes through, the event bus and    *)
(* the concurrent batch processor.                                         *)
(***************************************************************************)
EXTENDS Integers, Sequences, FiniteSets, TLC

(***************************************************************************)
(* Bounds of the model.                                                    *)
(***************************************************************************)
MaxRetriesArg == 3      \* largest max_retries a caller passes
MaxRuns == 2            \* calls of scrape_product_data in one behaviour
MaxProducts == 3        \* longest product list given to the batch processor
MaxBatchSize == 3       \* largest BatchProcessor.batch_size
\* ConcurrentScraper(max_concurrent_browsers, max_concurrent_per_browser);
\* the defaults 5 and 3 are scaled down.
max_concurrent_browsers == 1
max_concurrent_per_browser == 2
MaxLinks == 2           \* most anchors on one discovery page
MaxDiscoveries == 1     \* runs of discover_products_and_add_to_db
MaxScrapes == 1         \* scrape operations run beside the discovery
MaxPublishes == 2       \* calls of EventBus.publish in one behaviour
MaxSubscriptions == 2   \* subscriptions held by the bus at one time
MaxJobRuns == 2         \* runs of scraping_job in one behaviour
MaxCallbacks == 2       \* registrations of shutdown callbacks
MaxShutdownCalls == 2   \* calls of GracefulShutdownManager.shutdown

(***************************************************************************)
(* Values.                                                                 *)
(***************************************************************************)
None == "None"
NoPrice == -1           \* Python None in a price position
NoId == 0               \* "no row" for an autoincrement id (ids start at 1)

Urls == {"u1", "u2"}

\* minoristas table: 1 and 4 are fully configured, 2 lacks its price
\* selector and its discovery URL.  An id outside the domain is a retailer
\* that get_by_id does not find.
Minoristas ==
  [m \in {1, 2, 4} |->
     [id |-> m, activo |-> TRUE, url_base |-> "base",
      name_selector |-> TRUE, price_selector |-> (m # 2),
      image_selector |-> TRUE,
      discovery_url |-> IF m # 2 THEN "listing" ELSE None,
      product_link_selector |-> "a.product"]]

MinoristaIds == {1, 2, 3}

\* What the page shows once loaded: the visible texts after price cleaning.
Pages ==
  { [name_visible |-> TRUE, name |-> "P", price_visible |-> TRUE, price |-> 1,
     image_visible |-> TRUE, src |-> "img"],
    [name_visible |-> FALSE, name |-> "P", price_visible |-> TRUE, price |-> 2,
     image_visible |-> FALSE, src |-> None] }

\* Points of scrape_product_from_page at which the environment (browser,
\* network, database) can make an await raise.
FailPoints == {"none", "goto", "extract", "lookup", "upsert", "history"}

VARIABLES
  productos,        \* table productos: sequence of rows, id = index
  historial,        \* table historial_precios: sequence of rows
  event_history,    \* EventBus._event_history
  clock,            \* logical time for datetime.now()
  spc,              \* scrape_product_data: "idle", "attempt", "sleep", "returned", "raised"
  sreq,             \* its arguments [product_url, id_minorista, max_retries]
  attempt,          \* loop variable of retry_with_exponential_backoff
  calls,            \* executions of the wrapped function in this call
  sleeps,           \* asyncio.sleep calls in this call
  last_exception,   \* last exception raised by the wrapped function
  raised,           \* exception that reached the caller
  first_obs,        \* what the first lookup of this call observed: << >> or
                    \* <<[old_price, is_new_product]>>
  last_obs,         \* what the latest lookup of this call observed
  runs,             \* finished calls of scrape_product_data
  retval,           \* id of the product the call returned, NoId before
  products,         \* process_products_in_batches: its argument (product ids)
  batch_size,       \* BatchProcessor.batch_size
  bpc,              \* "idle", "loop", "gather", "sleep", "done", "cancelled"
  bi,               \* index i of the chunk loop (from 0)
  results,          \* results of the running scrape_products_concurrently
  total_results,    \* total_results of process_products_in_batches
  tstate,           \* per item, its task: "none", "created", "slot",
                    \* "browser", "closing", "session", "done"
  toutcome,         \* per item: "pending", "ok", "raised", "cancelled"
  texc,             \* per item: the exception its scrape raised
  tattempts,        \* per item: executions of scrape_product_from_page
  semaphore,        \* free slots of the chunk's semaphore (line 60)
  browser_semaphore,\* free slots of ConcurrentScraper.browser_semaphore
  cancel_requested, \* the run's task was cancelled from outside
  dpc,              \* discover_products_and_add_to_db: "idle", "retailers",
                    \* "links", "done"
  dqueue,           \* retailers the for loop has still to visit
  dcur,             \* retailer of the page being processed
  dlinks,           \* product_links of that page
  dk,               \* links of the page already processed
  dstatus,          \* how the page ended: "ok", "goto", "IntegrityError",
                    \* "SQLAlchemyError"
  druns,            \* discovery runs started
  dscrapes,         \* scrape operations run beside the discovery
  handlers,         \* EventBus._handlers: event type -> list of callables
  ppc,              \* EventBus.publish: "idle", "gather", "returned", "raised"
  psubscribed,      \* the list subscribed to the event's type when
                    \* publish was called
  ptasks,           \* tasks of the running publish: [handler, state, calls]
  nseq,             \* events published on the bus so far
  npublished,       \* calls of publish in this behaviour
  opc,              \* two concurrent scrape operations, per operation:
                    \* "idle", "lookup", "upsert", "write", "history",
                    \* "publish", "done", "failed"
  olocal,           \* per operation: its page, what its lookups found and
                    \* the object its session holds
  owrites,          \* operations in the order their product write committed
  jpc,              \* scraping_job: "idle", "discovery", "listing", "batch",
                    \* "finally"
  jruns,            \* runs of scraping_job started
  jlocal,           \* locals of the running scraping_job
  query_cache,      \* the entry of query_cache for the product list
  shutdown_callbacks, \* GracefulShutdownManager.shutdown_callbacks
  is_shutting_down, \* GracefulShutdownManager.is_shutting_down
  shutdown_event,   \* GracefulShutdownManager._shutdown_event is set
  gpc,              \* shutdown(): "idle", "loop", "cleanup", "returned"
  gi,               \* callbacks the for loop of shutdown() has passed
  executed,         \* callbacks called so far, in the order of the calls
  gcalls            \* calls of shutdown() so far

dbvars == <<productos, historial, event_history, clock>>
svars == <<spc, sreq, attempt, calls, sleeps, last_exception, raised,
           first_obs, last_obs, runs, retval>>
bvars == <<products, batch_size, bpc, bi, results, total_results, tstate,
           toutcome, texc, tattempts, semaphore, browser_semaphore,
           cancel_requested>>
dvars == <<dpc, dqueue, dcur, dlinks, dk, dstatus, druns, dscrapes>>
evars == <<handlers, ppc, psubscribed, ptasks, nseq, npublished>>
ovars == <<opc, olocal, owrites>>
jvars == <<jpc, jruns, jlocal, query_cache>>
gvars == <<shutdown_callbacks, is_shutting_down, shutdown_event, gpc, gi,
           executed, gcalls>>
zvars == <<jvars, gvars>>
xvars == <<dvars, evars, ovars, zvars>>
vars == <<dbvars, svars, bvars, xvars>>

(***************************************************************************)
(* Repositories.                                                           *)
(***************************************************************************)
\* ProductoRepository.get_by_url_and_retailer: id of the row, NoId if none.
GetByUrlAndRetailer(prods, product_url, id_minorista) ==
  LET hits == {i \in 1..Len(prods) :
                 /\ prods[i].product_url = product_url
                 /\ prods[i].id_minorista = id_minorista}
  IN IF hits = {} THEN NoId ELSE CHOOSE i \in hits : \A j \in hits : i <= j

\* Column product_url is declared unique=True.
ViolatesUniqueUrl(prods, product_url) ==
  \E i \in 1..Len(prods) : prods[i].product_url = product_url

\* A create whose failed commit is not rolled back: the row stays.
CreateWithoutRollback(rows, entity, integrity, fail) ==
  IF integrity THEN [rows |-> rows, exc |-> "IntegrityError", id |-> NoId]
  ELSE IF fail
  THEN [rows |-> Append(rows, entity), exc |-> "SQLAlchemyError", id |-> NoId]
  ELSE [rows |-> Append(rows, entity), exc |-> None, id |-> Len(rows) + 1]

\* BaseRepository.create: add + commit + refresh; on SQLAlchemyError the
\* session is rolled back and the error re-raised.
Create(rows, entity, integrity, fail) ==
  IF integrity THEN [rows |-> rows, exc |-> "IntegrityError", id |-> NoId]
  ELSE IF fail THEN [rows |-> rows, exc |-> "SQLAlchemyError", id |-> NoId]
  ELSE [rows |-> Append(rows, entity), exc |-> None, id |-> Len(rows) + 1]

\* BaseRepository.update: add + commit + refresh of a row already loaded.
Update(rows, id, entity, fail) ==
  IF fail THEN [rows |-> rows, exc |-> "SQLAlchemyError", id |-> NoId]
  ELSE [rows |-> [rows EXCEPT ![id] = entity], exc |-> None, id |-> id]

\* ProductoRepository.update_scraped_data
UpdateScrapedData(prods, product_url, id_minorista, name, price, image_url, now, fail) ==
  LET existing == GetByUrlAndRetailer(prods, product_url, id_minorista)
  IN IF existing # NoId
     THEN Update(prods, existing,
                 [prods[existing] EXCEPT !.name = name, !.price = price,
                                         !.image_url = image_url,
                                         !.last_scraped_at = now],
                 fail)
     ELSE Create(prods,
                 [product_url |-> product_url, id_minorista |-> id_minorista,
                  name |-> name, price |-> price, image_url |-> image_url,
                  last_scraped_at |-> now],
                 ViolatesUniqueUrl(prods, product_url), fail)

\* A history that gets a row only when the price differs from the latest
\* one recorded for the product.
CreatePriceRecordOnChange(hist, id_producto, id_minorista, precio, now, fail) ==
  LET own == {k \in 1..Len(hist) : hist[k].id_producto = id_producto}
      latest == CHOOSE k \in own : \A j \in own : j <= k
  IN IF own # {} /\ hist[latest].precio = precio
     THEN [rows |-> hist, exc |-> None, id |-> latest]
     ELSE Create(hist,
                 [id_producto |-> id_producto, id_minorista |-> id_minorista,
                  precio |-> precio, fecha_registro |-> now],
                 FALSE, fail)

\* HistorialPrecioRepository.create_price_record
CreatePriceRecord(hist, id_producto, id_minorista, precio, now, fail) ==
  Create(hist,
         [id_producto |-> id_producto, id_minorista |-> id_minorista,
          precio |-> precio, fecha_registro |-> now],
         FALSE, fail)

(***************************************************************************)
(* Event bus.                                                              *)
(***************************************************************************)
max_history == 1000     \* EventBus._max_history

NoExc == [type |-> None, status |-> 0, cause |-> None]
Exc(type, status, cause) == [type |-> type, status |-> status, cause |-> cause]

\* Event: type, source and the data dictionary (timestamps left out).
MkEvent(type, source, data) == [type |-> type, source |-> source, data |-> data]

\* A history that refuses the new event once it is full.
RecordDropNewest(evts, event) ==
  IF Len(evts) >= max_history THEN evts ELSE Append(evts, event)

\* EventBus.publish, first part: append to the history, drop the oldest
\* entry once the history exceeds _max_history.
Record(evts, event) ==
  LET h == Append(evts, event)
  IN IF Len(h) > max_history THEN Tail(h) ELSE h

\* price is a Python float (float(price_limpio)) and old_price the Decimal
\* that the Numeric(10, 2) column yields.  float - Decimal raises TypeError.
FloatMinusDecimalRaises == TRUE

\* ScrapingEventHandlers.on_product_scraped: the events it publishes.  An
\* exception inside the handler is caught by its own except clause.
OnProductScraped(event) ==
  LET d == event.data
  IN IF d.old_price # NoPrice /\ d.old_price # d.price
     THEN IF FloatMinusDecimalRaises
          THEN << >>
          ELSE << MkEvent("price_changed", "scraping_handler",
                          [product_id |-> d.product_id,
                           retailer_id |-> d.retailer_id,
                           product_name |-> d.product_name,
                           old_price |-> d.old_price, new_price |-> d.price,
                           change_amount |-> d.price - d.old_price,
                           change_percentage |->
                             IF d.old_price > 0
                             THEN ((d.price - d.old_price) * 100) \div d.old_price
                             ELSE 0]) >>
     ELSE << >>

\* EventBus.publish: record the event, then run the handlers subscribed by
\* register_event_handlers.  Handlers of price_changed and
\* scraping_completed only log and count; publish of a derived event is a
\* nested publish.
Publish(evts, event) ==
  LET h == Record(evts, event)
      derived == IF event.type = "product_scraped"
                 THEN OnProductScraped(event) ELSE << >>
  IN IF derived = << >> THEN h ELSE Record(h, derived[1])

(***************************************************************************)
(* EventBus: subscribe, unsubscribe, publish                               *)
(***************************************************************************)
BusEventTypes == {"product_scraped", "price_changed"}

\* The callables that get subscribed; each may raise when it is called.
Handlers == {"h1", "h2"}

\* An event published on the bus, told apart by its place in the sequence
\* of all publications.
BusEvent(type, seq) == MkEvent(type, "publisher", [seq |-> seq])

\* Subscriptions the bus holds, over all event types.
Subscriptions(hmap) ==
  LET types == DOMAIN hmap
      RECURSIVE Sum(_)
      Sum(T) == IF T = {} THEN 0
                ELSE LET t == CHOOSE t \in T : TRUE
                     IN Len(hmap[t]) + Sum(T \ {t})
  IN Sum(types)

\* list.remove(handler): the first occurrence goes; ValueError (caught by
\* unsubscribe) when there is none.
Remove(hs, h) ==
  LET hits == {i \in 1..Len(hs) : hs[i] = h}
      first == CHOOSE i \in hits : \A j \in hits : i <= j
  IN IF hits = {} THEN hs
     ELSE SubSeq(hs, 1, first - 1) \o SubSeq(hs, first + 1, Len(hs))

\* A publish that calls only the first handler of the list.
FirstHandlerOnly(hmap, type) ==
  IF hmap[type] = << >> THEN << >> ELSE << hmap[type][1] >>

\* Line 59: self._handlers.get(event.type, [])
HandlersFor(hmap, type) == hmap[type]

\* Lines 62-65: one task per entry of the list.
CreateTasks(hs) ==
  [i \in 1..Len(hs) |-> [handler |-> hs[i], state |-> "pending", calls |-> 0]]

\* What a call of a handler does: return, raise an Exception, or raise
\* asyncio.CancelledError, which is no Exception.
HandlerOutcomes == {"returns", "Exception", "CancelledError"}

\* _execute_handler: how the task ends.  The except clause logs an
\* Exception of the handler and the task returns; anything else ends the
\* task.
ExecuteHandler(outcome) ==
  IF outcome = "returns" THEN "ok"
  ELSE IF outcome = "Exception" THEN "caught"
  ELSE "raised"

\* Line 68: asyncio.gather(*tasks, return_exceptions=True)
return_exceptions == TRUE

\* gather raises into publish only without return_exceptions, when a task
\* ended with an exception.
GatherRaises(tasks) ==
  ~return_exceptions /\ \E i \in 1..Len(tasks) : tasks[i].state = "raised"

Subscribe(type, handler) ==
  /\ Subscriptions(handlers) < MaxSubscriptions
  /\ handlers' = [handlers EXCEPT ![type] = Append(@, handler)]
  /\ UNCHANGED <<dbvars, svars, bvars, zvars, dvars, ovars, ppc, psubscribed, ptasks, nseq,
                 npublished>>

Unsubscribe(type, handler) ==
  /\ handlers' = [handlers EXCEPT ![type] = Remove(@, handler)]
  /\ UNCHANGED <<dbvars, svars, bvars, zvars, dvars, ovars, ppc, psubscribed, ptasks, nseq,
                 npublished>>

\* Lines 49-66: the event enters the history and the tasks are created
\* (no await in between); with no handler publish returns at once.
PublishStart(type) ==
  /\ ppc \in {"idle", "returned", "raised"}
  /\ npublished < MaxPublishes
  /\ npublished' = npublished + 1
  /\ nseq' = nseq + 1
  /\ event_history' = Record(event_history, BusEvent(type, nseq + 1))
  /\ psubscribed' = handlers[type]
  /\ ptasks' = CreateTasks(HandlersFor(handlers, type))
  /\ ppc' = IF HandlersFor(handlers, type) = << >> THEN "returned" ELSE "gather"
  /\ UNCHANGED <<productos, historial, clock, svars, bvars, zvars, dvars, ovars, handlers>>

\* One task runs _execute_handler for its handler.
RunHandler(i, outcome) ==
  /\ ppc = "gather"
  /\ i \in DOMAIN ptasks
  /\ ptasks[i].state = "pending"
  /\ ptasks' = [ptasks EXCEPT ![i].state = ExecuteHandler(outcome),
                              ![i].calls = @ + 1]
  /\ UNCHANGED <<dbvars, svars, bvars, zvars, dvars, ovars, handlers, ppc, psubscribed, nseq,
                 npublished>>

\* Line 68: gather returns when every task is done.
PublishReturn ==
  /\ ppc = "gather"
  /\ \A i \in DOMAIN ptasks : ptasks[i].state # "pending"
  /\ ppc' = IF GatherRaises(ptasks) THEN "raised" ELSE "returned"
  /\ UNCHANGED <<dbvars, svars, bvars, zvars, dvars, ovars, handlers, psubscribed, ptasks,
                 nseq, npublished>>

(***************************************************************************)
(* scrape_product_from_page                                                *)
(***************************************************************************)
\* Lines 98-123: the extracted fields, with the defaults for elements that
\* are not visible.
Extract(m, page) ==
  [name |-> IF page.name_visible THEN page.name ELSE "Nombre Desconocido",
   price |-> IF page.price_visible THEN page.price ELSE 0,
   image_url |-> IF m.image_selector /\ page.image_visible /\ page.src # None
                 THEN page.src ELSE None]

\* Result of one execution: the tables and the bus history afterwards, the
\* exception raised (NoExc on return), what the lookup observed, whether a
\* write was committed, and the id of the returned product.
ScrapeResult(prods, hist, evts, exc, obs, committed, id) ==
  [productos |-> prods, historial |-> hist, events |-> evts, exc |-> exc,
   obs |-> obs, committed |-> committed, id |-> id]

ScrapeProductFromPage(prods, hist, evts, product_url, m, page, failAt, now) ==
  LET nothing(exc) == ScrapeResult(prods, hist, evts, exc, << >>, FALSE, NoId)
  IN
  IF failAt = "goto" THEN nothing(Exc("PlaywrightError", 0, "goto"))
  ELSE IF ~(m.name_selector /\ m.price_selector)
  THEN nothing(Exc("HTTPException", 400, "selectors"))
  ELSE IF failAt = "extract" THEN nothing(Exc("PlaywrightError", 0, "extract"))
  ELSE IF failAt = "lookup" THEN nothing(Exc("SQLAlchemyError", 0, "lookup"))
  ELSE
    LET x == Extract(m, page)
        existing == GetByUrlAndRetailer(prods, product_url, m.id)
        old_price == IF existing # NoId THEN prods[existing].price ELSE NoPrice
        is_new_product == existing = NoId
        obs == << [old_price |-> old_price, is_new_product |-> is_new_product] >>
        up == UpdateScrapedData(prods, product_url, m.id, x.name, x.price,
                                x.image_url, now, failAt = "upsert")
    IN
    IF up.exc # None
    THEN ScrapeResult(up.rows, hist, evts, Exc(up.exc, 0, "upsert"), obs, FALSE, NoId)
    ELSE
      LET hr == CreatePriceRecord(hist, up.id, m.id, x.price, now,
                                  failAt = "history")
      IN
      IF hr.exc # None
      THEN ScrapeResult(up.rows, hr.rows, evts, Exc(hr.exc, 0, "history"), obs,
                        TRUE, NoId)
      ELSE ScrapeResult(up.rows, hr.rows,
                        Publish(evts,
                                MkEvent("product_scraped", "scraper",
                                        [product_id |-> up.id,
                                         retailer_id |-> m.id,
                                         product_name |-> x.name,
                                         price |-> x.price,
                                         old_price |-> old_price,
                                         product_url |-> product_url,
                                         is_new_product |-> is_new_product])),
                        NoExc, obs, TRUE, up.id)

(***************************************************************************)
(* _scrape_product_internal                                                *)
(***************************************************************************)
\* The except clauses of lines 197-211: IntegrityError becomes a 400, any
\* other Exception (an HTTPException raised inside included) a 500.  The
\* db.rollback() they call finds nothing pending: every repository call
\* has committed or rolled back its own write.
TranslateException(exc) ==
  IF exc.type = "IntegrityError" THEN Exc("HTTPException", 400, exc.cause)
  ELSE Exc("HTTPException", 500, exc.cause)

ScrapeProductInternal(prods, hist, evts, product_url, id_minorista, page, failAt, now) ==
  IF id_minorista \notin DOMAIN Minoristas
  THEN ScrapeResult(prods, hist, evts, Exc("HTTPException", 404, "minorista"),
                    << >>, FALSE, NoId)
  ELSE LET r == ScrapeProductFromPage(prods, hist, evts, product_url,
                                      Minoristas[id_minorista], page, failAt, now)
       IN IF r.exc = NoExc THEN r
          ELSE [r EXCEPT !.exc = TranslateException(r.exc)]

(***************************************************************************)
(* retry_with_exponential_backoff, as called by scrape_product_data        *)
(***************************************************************************)
base_delay == 1         \* seconds
max_delay == 30
backoff_factor == 2

RECURSIVE Pow(_, _)
Pow(b, e) == IF e = 0 THEN 1 ELSE b * Pow(b, e - 1)

Min(a, b) == IF a <= b THEN a ELSE b

\* Line 65: random.uniform(0, delay * 0.1), at its two ends, as a multiple
\* of a tenth of the delay.
Jitter == {0, 1}

\* Line 61; the jitter of line 65 adds at most a tenth of it.
BackoffDelay(att) == Min(base_delay * Pow(backoff_factor, att), max_delay)

\* A retry loop that sleeps after its last attempt too, and raises after
\* the sleep.
NeverExhausted(att, max_retries) == FALSE

\* A retry loop that gives up one attempt early.
ExhaustedEarly(att, max_retries) == att + 1 >= max_retries

\* Line 53: the attempt that just failed was the last one.
Exhausted(att, max_retries) == att = max_retries

StartScrape(product_url, id_minorista, max_retries) ==
  /\ spc \in {"idle", "returned", "raised"}
  /\ runs < MaxRuns
  /\ runs' = runs + 1
  /\ clock' = clock + 1
  /\ sreq' = [product_url |-> product_url, id_minorista |-> id_minorista,
              max_retries |-> max_retries]
  /\ spc' = "attempt"
  /\ attempt' = 0
  /\ calls' = 0
  /\ sleeps' = << >>
  /\ last_exception' = NoExc
  /\ raised' = NoExc
  /\ first_obs' = << >>
  /\ last_obs' = << >>
  /\ retval' = NoId
  /\ UNCHANGED <<productos, historial, event_history, bvars, xvars>>

\* One iteration of the for loop up to the sleep: run the wrapped function,
\* return its result or handle its exception.
Attempt(page, failAt) ==
  /\ spc = "attempt"
  /\ LET r == ScrapeProductInternal(productos, historial, event_history,
                                    sreq.product_url, sreq.id_minorista,
                                    page, failAt, clock)
     IN /\ productos' = r.productos
        /\ historial' = r.historial
        /\ event_history' = r.events
        /\ calls' = calls + 1
        /\ first_obs' = IF first_obs = << >> THEN r.obs ELSE first_obs
        /\ last_obs' = IF r.obs = << >> THEN last_obs ELSE r.obs
        /\ IF r.exc = NoExc
           THEN /\ spc' = "returned"
                /\ retval' = r.id
                /\ UNCHANGED <<last_exception, raised>>
           ELSE /\ last_exception' = r.exc
                /\ UNCHANGED retval
                /\ IF Exhausted(attempt, sreq.max_retries)
                   THEN spc' = "raised" /\ raised' = r.exc
                   ELSE spc' = "sleep" /\ UNCHANGED raised
  /\ UNCHANGED <<clock, sreq, attempt, sleeps, runs, bvars, xvars>>

\* Lines 61-72 and the next turn of the loop; once range(max_retries + 1)
\* is used up, lines 75-76 raise the last exception.
Backoff(jitter) ==
  /\ spc = "sleep"
  /\ sleeps' = Append(sleeps, BackoffDelay(attempt)
                                + jitter * (BackoffDelay(attempt) \div 10))
  /\ attempt' = attempt + 1
  /\ IF attempt + 1 <= sreq.max_retries
     THEN spc' = "attempt" /\ UNCHANGED raised
     ELSE spc' = "raised" /\ raised' = last_exception
  /\ UNCHANGED <<dbvars, sreq, calls, last_exception, first_obs,
                 last_obs, runs, retval, bvars, xvars>>

\* Default of scrape_product_data's max_retries, which activar_scraper
\* leaves as it is.
default_max_retries == 3

\* routes/scraper.py, activar_scraper: the status of the response when
\* scrape_product_data raises.  An HTTPException is re-raised as it is,
\* anything else becomes a 500.
ActivarScraperStatus(exc) ==
  IF exc.type = "HTTPException" THEN exc.status ELSE 500

(***************************************************************************)
(* discover_products_and_add_to_db                                         *)
(***************************************************************************)
\* Anchors of a listing page: the href attribute is absolute or relative
\* and names a product page of the site.
Anchors ==
  { [absolute |-> TRUE, target |-> "u1"],
    [absolute |-> FALSE, target |-> "u1"],
    [absolute |-> TRUE, target |-> "u2"] }

\* Lines 270-276: link.href is the DOM property, the absolute URL the
\* browser resolves the attribute to.
Href(anchor) == anchor.target

\* urljoin(minorista.url_base, link): an absolute second argument is
\* returned as it is, and link.href is always absolute.
UrlJoin(url_base, link) == link

\* The anchor lists a listing page can show.
AnchorLists == UNION {[1..n -> Anchors] : n \in 0..MaxLinks}

\* MinoristaRepository.get_retailers_with_discovery_config
RetailersWithDiscoveryConfig ==
  {m \in DOMAIN Minoristas :
     /\ Minoristas[m].activo
     /\ Minoristas[m].discovery_url # None
     /\ Minoristas[m].product_link_selector # None}

\* The select has no ORDER BY: the rows come in any order.
Orders(S) ==
  {q \in [1..Cardinality(S) -> S] : \A a \in S : \E i \in DOMAIN q : q[i] = a}

\* Lines 293-299: the row of a newly discovered product.
Placeholder(full_url, id_minorista, now) ==
  [product_url |-> full_url, id_minorista |-> id_minorista,
   name |-> "Producto Desconocido", price |-> 0, image_url |-> None,
   last_scraped_at |-> now]

\* A refresh that also resets the row to the placeholder values.
RefreshedAsPlaceholder(row, now) ==
  [row EXCEPT !.name = "Producto Desconocido", !.price = 0,
              !.last_scraped_at = now]

\* Line 306: the only field set on a product that already exists.
Refreshed(row, now) == [row EXCEPT !.last_scraped_at = now]

\* Lines 284-310: one turn of "for link in product_links".
DiscoverUrl(prods, full_url, id_minorista, now, fail) ==
  LET existing_product == GetByUrlAndRetailer(prods, full_url, id_minorista)
  IN IF existing_product = NoId
     THEN Create(prods, Placeholder(full_url, id_minorista, now),
                 ViolatesUniqueUrl(prods, full_url), fail)
     ELSE Update(prods, existing_product,
                 Refreshed(prods[existing_product], now), fail)

\* Lines 240-258: a run starts and reads the retailers to visit.
StartDiscovery(order) ==
  /\ dpc \in {"idle", "done"}
  /\ druns < MaxDiscoveries
  /\ druns' = druns + 1
  /\ clock' = clock + 1
  /\ dqueue' = order
  /\ dpc' = IF order = << >> THEN "done" ELSE "retailers"
  /\ dcur' = NoId
  /\ dlinks' = << >>
  /\ dk' = 0
  /\ dstatus' = "ok"
  /\ UNCHANGED <<productos, historial, event_history, svars, bvars, zvars, evars, ovars,
                 dscrapes>>

\* Lines 259-280: the next retailer's page is loaded and its links read; a
\* failed navigation is caught by the except clause of line 312.
OpenPage(anchors, fail) ==
  /\ dpc = "retailers"
  /\ dqueue # << >>
  /\ fail => anchors = << >>
  /\ dcur' = Head(dqueue)
  /\ dqueue' = Tail(dqueue)
  /\ dk' = 0
  /\ IF fail
     THEN /\ dstatus' = "goto"
          /\ dlinks' = << >>
          /\ UNCHANGED dpc
     ELSE /\ dstatus' = "ok"
          /\ dlinks' = [i \in 1..Len(anchors) |-> Href(anchors[i])]
          /\ dpc' = "links"
  /\ UNCHANGED <<dbvars, svars, bvars, zvars, evars, ovars, druns, dscrapes>>

\* Lines 282-310 for the next link.  An exception of the repository leaves
\* the for loop over the links through the except clause of line 312; the
\* rollback has expired the objects of the session, so the loop over the
\* retailers either goes on or ends there.
DiscoverLink(fail, continues) ==
  /\ dpc = "links"
  /\ dk < Len(dlinks)
  /\ LET r == DiscoverUrl(productos,
                          UrlJoin(Minoristas[dcur].url_base, dlinks[dk + 1]),
                          dcur, clock, fail)
     IN /\ productos' = r.rows
        /\ IF r.exc = None
           THEN /\ continues
                /\ dk' = dk + 1
                /\ UNCHANGED <<dpc, dstatus>>
           ELSE /\ dstatus' = r.exc
                /\ dpc' = IF continues THEN "retailers" ELSE "done"
                /\ UNCHANGED dk
  /\ UNCHANGED <<historial, event_history, clock, svars, bvars, zvars, evars, ovars, dqueue,
                 dcur, dlinks, druns, dscrapes>>

\* Line 311: page.close() after the last link.
ClosePage ==
  /\ dpc = "links"
  /\ dk = Len(dlinks)
  /\ dpc' = "retailers"
  /\ UNCHANGED <<dbvars, svars, bvars, zvars, evars, ovars, dqueue, dcur, dlinks, dk,
                 dstatus, druns, dscrapes>>

\* Lines 316-326: no retailer is left, the browser and the session close.
EndDiscovery ==
  /\ dpc = "retailers"
  /\ dqueue = << >>
  /\ dpc' = "done"
  /\ dcur' = NoId
  /\ dlinks' = << >>
  /\ dk' = 0
  /\ dstatus' = "ok"
  /\ UNCHANGED <<dbvars, svars, bvars, zvars, evars, ovars, dqueue, druns, dscrapes>>

\* Retailers a scrape operation can run for.
ScrapableRetailers ==
  {m \in DOMAIN Minoristas :
     Minoristas[m].name_selector /\ Minoristas[m].price_selector}

\* One execution of _scrape_product_internal, in a session of its own,
\* between two steps of the discovery.  Time is counted in discovery runs.
ScrapeOperation(product_url, id_minorista, page, failAt) ==
  /\ dscrapes < MaxScrapes
  /\ dscrapes' = dscrapes + 1
  /\ LET r == ScrapeProductInternal(productos, historial, event_history,
                                    product_url, id_minorista, page, failAt,
                                    clock)
     IN /\ productos' = r.productos
        /\ historial' = r.historial
        /\ event_history' = r.events
  /\ UNCHANGED <<clock, svars, bvars, zvars, evars, ovars, dpc, dqueue, dcur, dlinks, dk,
                 dstatus, druns>>

(***************************************************************************)
(* Two scrape operations on the same (url, retailer), each in a session of *)
(* its own, interleaved at the awaits of scrape_product_from_page.         *)
(***************************************************************************)
Ops == {1, 2}
race_url == "u1"
race_minorista == 1

NoLocal ==
  [page |-> None, old_price |-> NoPrice, is_new_product |-> FALSE,
   loaded |-> << >>, existing |-> NoId, id |-> NoId, exc |-> NoExc]

\* What a lookup leaves in the session: the object it already holds for
\* the row (the identity map is not refreshed by a second select), else
\* the row as it is now.
Load(loaded, prods, id) ==
  IF id = NoId THEN loaded
  ELSE IF loaded # << >> THEN loaded
  ELSE << prods[id] >>

\* The UPDATE of a flush carries the columns whose value differs from the
\* one the session loaded; the other columns of the row stay as they are
\* in the table.
Flush(current, loaded, entity) ==
  [current EXCEPT
     !.name = IF entity.name # loaded.name THEN entity.name ELSE @,
     !.price = IF entity.price # loaded.price THEN entity.price ELSE @,
     !.image_url = IF entity.image_url # loaded.image_url
                   THEN entity.image_url ELSE @,
     !.last_scraped_at = entity.last_scraped_at]

\* Lines 86-123: the operation has loaded and extracted its page.
RaceStart(o, page) ==
  /\ opc[o] = "idle"
  /\ opc' = [opc EXCEPT ![o] = "lookup"]
  /\ olocal' = [olocal EXCEPT ![o].page = page]
  /\ UNCHANGED <<dbvars, svars, bvars, zvars, dvars, evars, owrites>>

\* Lines 131-134: the lookup of scrape_product_from_page.
RaceLookup(o) ==
  /\ opc[o] = "lookup"
  /\ LET existing == GetByUrlAndRetailer(productos, race_url, race_minorista)
     IN olocal' = [olocal EXCEPT
                     ![o].old_price = IF existing # NoId
                                      THEN productos[existing].price
                                      ELSE NoPrice,
                     ![o].is_new_product = (existing = NoId),
                     ![o].loaded = Load(@, productos, existing)]
  /\ opc' = [opc EXCEPT ![o] = "upsert"]
  /\ UNCHANGED <<dbvars, svars, bvars, zvars, dvars, evars, owrites>>

\* update_scraped_data, line 83: its own lookup.
RaceUpsertLookup(o) ==
  /\ opc[o] = "upsert"
  /\ LET existing == GetByUrlAndRetailer(productos, race_url, race_minorista)
     IN olocal' = [olocal EXCEPT ![o].existing = existing,
                                 ![o].loaded = Load(@, productos, existing)]
  /\ opc' = [opc EXCEPT ![o] = "write"]
  /\ UNCHANGED <<dbvars, svars, bvars, zvars, dvars, evars, owrites>>

\* update_scraped_data, lines 86-104: the update or the insert, committed.
\* An IntegrityError leaves _scrape_product_internal as a 400.
RaceWrite(o) ==
  /\ opc[o] = "write"
  /\ LET l == olocal[o]
         x == Extract(Minoristas[race_minorista], l.page)
         entity == [product_url |-> race_url, id_minorista |-> race_minorista,
                    name |-> x.name, price |-> x.price,
                    image_url |-> x.image_url, last_scraped_at |-> clock]
         r == IF l.existing # NoId
              THEN Update(productos, l.existing,
                          Flush(productos[l.existing], l.loaded[1], entity),
                          FALSE)
              ELSE Create(productos, entity,
                          ViolatesUniqueUrl(productos, race_url), FALSE)
     IN /\ productos' = r.rows
        /\ IF r.exc = None
           THEN /\ opc' = [opc EXCEPT ![o] = "history"]
                /\ olocal' = [olocal EXCEPT ![o].id = r.id]
                /\ owrites' = Append(owrites, o)
           ELSE /\ opc' = [opc EXCEPT ![o] = "failed"]
                /\ olocal' = [olocal EXCEPT
                                ![o].exc = TranslateException(Exc(r.exc, 0, "upsert"))]
                /\ UNCHANGED owrites
  /\ UNCHANGED <<historial, event_history, clock, svars, bvars, zvars, dvars, evars>>

\* Lines 150-155: the price-history row.
RaceHistory(o) ==
  /\ opc[o] = "history"
  /\ LET x == Extract(Minoristas[race_minorista], olocal[o].page)
         hr == CreatePriceRecord(historial, olocal[o].id, race_minorista,
                                 x.price, clock, FALSE)
     IN historial' = hr.rows
  /\ opc' = [opc EXCEPT ![o] = "publish"]
  /\ UNCHANGED <<productos, event_history, clock, svars, bvars, zvars, dvars, evars,
                 olocal, owrites>>

\* Lines 158-173: the product_scraped event, and the return.
RacePublish(o) ==
  /\ opc[o] = "publish"
  /\ LET x == Extract(Minoristas[race_minorista], olocal[o].page)
     IN event_history' =
          Publish(event_history,
                  MkEvent("product_scraped", "scraper",
                          [product_id |-> olocal[o].id,
                           retailer_id |-> race_minorista,
                           product_name |-> x.name,
                           price |-> x.price,
                           old_price |-> olocal[o].old_price,
                           product_url |-> race_url,
                           is_new_product |-> olocal[o].is_new_product]))
  /\ opc' = [opc EXCEPT ![o] = "done"]
  /\ UNCHANGED <<productos, historial, clock, svars, bvars, zvars, dvars, evars,
                 olocal, owrites>>

(***************************************************************************)
(* ConcurrentScraper and BatchProcessor                                    *)
(***************************************************************************)
\* Failures injected into the scrape of a batch item: none, one before any
\* write (navigation) and one after the first write (history insert).
BatchFailPoints == {"none", "goto", "history"}

\* The page a batch item shows.
BatchPages == {p \in Pages : p.price = 1}

\* URLs of the products the batch run finds in the table.
BatchUrls == <<"u1", "u2", "u3", "u4", "u5">>

\* results of scrape_products_concurrently (lines 34-39)
EmptyResults(n) ==
  [total_products |-> n, successful |-> 0, failed |-> 0, errors |-> << >>]

\* total_results of process_products_in_batches (lines 179-185)
EmptyTotals(n) ==
  [total_products |-> n, successful |-> 0, failed |-> 0, errors |-> << >>,
   batches_processed |-> 0]

\* A semaphore one slot too large.
SemaphoreSizePlusOne(browsers, per_browser) == browsers * per_browser + 1

\* Line 60: size of the semaphore of one scrape_products_concurrently call.
SemaphoreSize(browsers, per_browser) == browsers * per_browser

\* A browser semaphore as large as the page semaphore.
BrowserSemaphorePerPage(browsers, per_browser) == browsers * per_browser

\* Line 26: size of ConcurrentScraper.browser_semaphore.
BrowserSemaphoreSize(browsers, per_browser) == browsers

\* A browser slot that only a scrape that returned gives back.
BrowserReleasedOnSuccess(outcome) == outcome = "ok"

\* Line 131, async with self.browser_semaphore: the slot is given back on
\* every exit of the block.
BrowserReleasedOnExit(outcome) == TRUE

\* range(0, n, step) as a sequence
RECURSIVE RangeFrom(_, _, _)
RangeFrom(i, n, step) ==
  IF i >= n THEN << >> ELSE <<i>> \o RangeFrom(i + step, n, step)

\* Python slice s[lo:hi]
Slice(s, lo, hi) == SubSeq(s, lo + 1, Min(hi, Len(s)))

\* Lines 190-193: the chunks, each a sequence of positions of the list.
Batches(n, b) ==
  LET starts == RangeFrom(0, n, b)
      positions == [i \in 1..n |-> i]
  IN [k \in 1..Len(starts) |-> Slice(positions, starts[k], starts[k] + b)]

SeqToSet(q) == {q[i] : i \in 1..Len(q)}

\* Items of the chunk the loop is at (empty outside the loop's range).
CurrentBatch ==
  LET bs == Batches(Len(products), batch_size)
  IN IF bi + 1 \in 1..Len(bs) THEN SeqToSet(bs[bi + 1]) ELSE {}

\* ProductoRepository.get_products_from_active_retailers: ids of the rows
\* whose retailer is active.
ProductsFromActiveRetailers(prods) ==
  SelectSeq([i \in 1..Len(prods) |-> i],
            LAMBDA i : /\ prods[i].id_minorista \in DOMAIN Minoristas
                       /\ Minoristas[prods[i].id_minorista].activo)

\* A wait that returns as soon as one task is done.
FirstCompleted(batch) == \E t \in batch : tstate[t] = "done"

\* Line 70: asyncio.gather returns once every task of the chunk is done.
GatherComplete(batch) == \A t \in batch : tstate[t] = "done"

\* A release that only the success path reaches.
ReleasedOnSuccess(outcome) == outcome = "ok"

\* async with: the slot is released on every exit of the block.
ReleasedOnExit(outcome) == TRUE

\* A handler that counts the failure but drops its error entry.
CountFailureOnly(res, entry) == [res EXCEPT !.failed = @ + 1]

\* Lines 107-113: the except clause of the task.
RecordFailure(res, entry) ==
  [res EXCEPT !.failed = @ + 1, !.errors = Append(@, entry)]

\* An aggregation that overwrites the counters with those of the chunk.
AggregateLast(total, batch_results) ==
  [total EXCEPT !.successful = batch_results.successful,
                !.failed = batch_results.failed,
                !.errors = @ \o batch_results.errors,
                !.batches_processed = @ + 1]

\* Lines 204-207
Aggregate(total, batch_results) ==
  [total EXCEPT !.successful = @ + batch_results.successful,
                !.failed = @ + batch_results.failed,
                !.errors = @ \o batch_results.errors,
                !.batches_processed = @ + 1]

\* process_products_in_batches is called, as scraping_job does, with the
\* products of active retailers (lines 179-195).
StartRun(b) ==
  /\ bpc = "idle"
  /\ LET ps == ProductsFromActiveRetailers(productos)
     IN /\ products' = ps
        /\ total_results' = EmptyTotals(Len(ps))
        /\ tstate' = [i \in 1..Len(ps) |-> "none"]
        /\ toutcome' = [i \in 1..Len(ps) |-> "pending"]
        /\ texc' = [i \in 1..Len(ps) |-> NoExc]
        /\ tattempts' = [i \in 1..Len(ps) |-> 0]
  /\ batch_size' = b
  /\ bi' = 0
  /\ bpc' = "loop"
  /\ UNCHANGED <<dbvars, svars, xvars, results, semaphore, browser_semaphore,
                 cancel_requested>>

\* scrape_products_concurrently up to the gather (lines 33-67): publish
\* scraping_started, create the semaphore and one task per product.
BeginChunk ==
  /\ bpc = "loop"
  /\ CurrentBatch # {}
  /\ results' = EmptyResults(Cardinality(CurrentBatch))
  /\ event_history' =
       Publish(event_history,
               MkEvent("scraping_started", "concurrent_scraper",
                       [products_count |-> Cardinality(CurrentBatch),
                        concurrent_browsers |-> max_concurrent_browsers]))
  /\ semaphore' = SemaphoreSize(max_concurrent_browsers,
                                max_concurrent_per_browser)
  /\ tstate' = [i \in DOMAIN tstate |->
                  IF i \in CurrentBatch THEN "created" ELSE tstate[i]]
  /\ bpc' = "gather"
  /\ UNCHANGED <<productos, historial, clock, svars, xvars, products, batch_size,
                 bi, total_results, toutcome, texc, tattempts,
                 browser_semaphore, cancel_requested>>

\* Line 100: async with semaphore.
AcquireSlot(t) ==
  /\ bpc = "gather" /\ ~cancel_requested
  /\ t \in DOMAIN tstate
  /\ tstate[t] = "created"
  /\ semaphore > 0
  /\ semaphore' = semaphore - 1
  /\ tstate' = [tstate EXCEPT ![t] = "slot"]
  /\ UNCHANGED <<dbvars, svars, xvars, products, batch_size, bpc, bi, results,
                 total_results, toutcome, texc, tattempts, browser_semaphore,
                 cancel_requested>>

\* Lines 102-103 and 124-143: open the session, load the retailer (ValueError
\* if there is none), then async with self.browser_semaphore and launch.
AcquireBrowser(t) ==
  /\ bpc = "gather" /\ ~cancel_requested
  /\ t \in DOMAIN tstate
  /\ tstate[t] = "slot"
  /\ IF productos[products[t]].id_minorista \notin DOMAIN Minoristas
     THEN /\ toutcome' = [toutcome EXCEPT ![t] = "raised"]
          /\ texc' = [texc EXCEPT ![t] = Exc("ValueError", 0, "minorista")]
          /\ tstate' = [tstate EXCEPT ![t] = "session"]
          /\ UNCHANGED browser_semaphore
     ELSE /\ browser_semaphore > 0
          /\ browser_semaphore' = browser_semaphore - 1
          /\ tstate' = [tstate EXCEPT ![t] = "browser"]
          /\ UNCHANGED <<toutcome, texc>>
  /\ UNCHANGED <<dbvars, svars, xvars, products, batch_size, bpc, bi, results,
                 total_results, tattempts, semaphore, cancel_requested>>

\* Lines 144-159: scrape_product_from_page on the new page.
ScrapeItem(t, page, failAt) ==
  /\ bpc = "gather" /\ ~cancel_requested
  /\ t \in DOMAIN tstate
  /\ tstate[t] = "browser"
  /\ LET row == productos[products[t]]
         r == ScrapeProductFromPage(productos, historial, event_history,
                                    row.product_url,
                                    Minoristas[row.id_minorista],
                                    page, failAt, clock)
     IN /\ productos' = r.productos
        /\ historial' = r.historial
        /\ event_history' = r.events
        /\ tattempts' = [tattempts EXCEPT ![t] = @ + 1]
        /\ IF r.exc = NoExc
           THEN /\ toutcome' = [toutcome EXCEPT ![t] = "ok"]
                /\ UNCHANGED texc
           ELSE /\ toutcome' = [toutcome EXCEPT ![t] = "raised"]
                /\ texc' = [texc EXCEPT ![t] = r.exc]
  /\ tstate' = [tstate EXCEPT ![t] = "closing"]
  /\ UNCHANGED <<clock, svars, xvars, products, batch_size, bpc, bi, results,
                 total_results, semaphore, browser_semaphore,
                 cancel_requested>>

\* Lines 161-162 and 104: browser.close() in the finally clause, the browser
\* slot is released, and a scrape that returned is counted.
CloseBrowser(t) ==
  /\ bpc = "gather" /\ ~cancel_requested
  /\ t \in DOMAIN tstate
  /\ tstate[t] = "closing"
  /\ browser_semaphore' = IF BrowserReleasedOnExit(toutcome[t])
                          THEN browser_semaphore + 1 ELSE browser_semaphore
  /\ results' = IF toutcome[t] = "ok"
                THEN [results EXCEPT !.successful = @ + 1] ELSE results
  /\ tstate' = [tstate EXCEPT ![t] = "session"]
  /\ UNCHANGED <<dbvars, svars, xvars, products, batch_size, bpc, bi, total_results,
                 toutcome, texc, tattempts, semaphore, cancel_requested>>

\* Lines 102-114, the way out: the session is closed, an exception reaches
\* the except clause and is recorded, and the slot is released.
CloseSession(t) ==
  /\ bpc = "gather" /\ ~cancel_requested
  /\ t \in DOMAIN tstate
  /\ tstate[t] = "session"
  /\ results' = IF toutcome[t] = "raised"
                THEN RecordFailure(results,
                                   [product_id |-> products[t],
                                    product_name |-> productos[products[t]].name,
                                    error |-> texc[t]])
                ELSE results
  /\ semaphore' = IF ReleasedOnExit(toutcome[t])
                  THEN semaphore + 1 ELSE semaphore
  /\ tstate' = [tstate EXCEPT ![t] = "done"]
  /\ UNCHANGED <<dbvars, svars, xvars, products, batch_size, bpc, bi, total_results,
                 toutcome, texc, tattempts, browser_semaphore,
                 cancel_requested>>

\* The task that runs process_products_in_batches is cancelled while it
\* waits in gather (which cancels every task of the chunk) or in the sleep
\* between chunks.
CancelRun ==
  /\ bpc \in {"gather", "sleep"}
  /\ ~cancel_requested
  /\ cancel_requested' = TRUE
  /\ bpc' = IF bpc = "sleep" THEN "cancelled" ELSE bpc
  /\ UNCHANGED <<dbvars, svars, xvars, products, batch_size, bi, results,
                 total_results, tstate, toutcome, texc, tattempts, semaphore,
                 browser_semaphore>>

\* CancelledError is thrown into the task at the await it is suspended in
\* and leaves through the async with blocks: they release what the task
\* holds.  It is not an Exception: the except clause does not count it.
TaskCancelled(t) ==
  /\ bpc = "gather" /\ cancel_requested
  /\ t \in DOMAIN tstate
  /\ tstate[t] \in {"created", "slot", "browser", "closing", "session"}
  /\ browser_semaphore' = IF tstate[t] \in {"browser", "closing"}
                          THEN browser_semaphore + 1 ELSE browser_semaphore
  /\ semaphore' = IF tstate[t] \in {"slot", "browser", "closing", "session"}
                     /\ ReleasedOnExit("cancelled")
                  THEN semaphore + 1 ELSE semaphore
  /\ toutcome' = [toutcome EXCEPT ![t] = IF @ = "pending" THEN "cancelled" ELSE @]
  /\ tstate' = [tstate EXCEPT ![t] = "done"]
  /\ UNCHANGED <<dbvars, svars, xvars, products, batch_size, bpc, bi, results,
                 total_results, texc, tattempts, cancel_requested>>

\* The cancelled gather ends once its tasks have ended; CancelledError
\* leaves scrape_products_concurrently and process_products_in_batches.
GatherCancelled ==
  /\ bpc = "gather" /\ cancel_requested
  /\ GatherComplete(CurrentBatch)
  /\ bpc' = "cancelled"
  /\ UNCHANGED <<dbvars, svars, xvars, products, batch_size, bi, results,
                 total_results, tstate, toutcome, texc, tattempts, semaphore,
                 browser_semaphore, cancel_requested>>

\* Lines 70-92 and 204-211: gather returns, scraping_completed is
\* published with the results, the results are added to the totals.
\* Nothing in scrape_products_concurrently raises an Exception (tasks and
\* handlers catch their own), so the except clause of lines 213-215 is
\* never entered.
FinishChunk ==
  /\ bpc = "gather" /\ ~cancel_requested
  /\ GatherComplete(CurrentBatch)
  /\ event_history' =
       Publish(event_history,
               MkEvent("scraping_completed", "concurrent_scraper", results))
  /\ total_results' = Aggregate(total_results, results)
  /\ IF bi < Len(Batches(Len(products), batch_size)) - 1
     THEN bpc' = "sleep" /\ UNCHANGED bi
     ELSE bpc' = "loop" /\ bi' = bi + 1
  /\ UNCHANGED <<productos, historial, clock, svars, xvars, products, batch_size,
                 results, tstate, toutcome, texc, tattempts, semaphore,
                 browser_semaphore, cancel_requested>>

\* Line 211: the pause between chunks.
InterBatchSleep ==
  /\ bpc = "sleep"
  /\ bi' = bi + 1
  /\ bpc' = "loop"
  /\ UNCHANGED <<dbvars, svars, xvars, products, batch_size, results, total_results,
                 tstate, toutcome, texc, tattempts, semaphore,
                 browser_semaphore, cancel_requested>>

\* Lines 217-226: the loop is over, total_results is returned.
ReturnRun ==
  /\ bpc = "loop"
  /\ CurrentBatch = {}
  /\ bpc' = "done"
  /\ UNCHANGED <<dbvars, svars, xvars, products, batch_size, bi, results,
                 total_results, tstate, toutcome, texc, tattempts, semaphore,
                 browser_semaphore, cancel_requested>>

(***************************************************************************)
(* scraping_job and the query cache of the product list                    *)
(***************************************************************************)
ttl_seconds == 300        \* ttl of the cached product list
interval_seconds == 3600  \* IntervalTrigger(minutes=60)

\* How long one discovery takes, in seconds: a single quick page, or an
\* hour of slow listing pages (page.goto waits up to its timeout for each).
DiscoveryDurations == {60, 3600}

\* The product links one listing page shows to a scheduled discovery.
JobLinks == {<< >>} \cup {<<u>> : u \in Urls}

NoCache == << >>

\* MemoryCache.get through QueryCache.get_query_result: the entry's data
\* unless the key is absent or the entry has expired; << >> is Python None.
CacheGet(cache, now) ==
  IF cache = NoCache THEN << >>
  ELSE IF now >= cache[1].expires_at THEN << >>
  ELSE << cache[1].data >>

\* MemoryCache.get removes an expired entry.
CacheAfterGet(cache, now) ==
  IF cache # NoCache /\ now >= cache[1].expires_at THEN NoCache ELSE cache

\* MemoryCache.set through QueryCache.cache_query_result
CacheSet(data, now, ttl) == << [data |-> data, expires_at |-> now + ttl] >>

\* ProductoRepository.get_products_from_active_retailers: the cached list
\* if there is one ("is not None": an empty list is a hit), else the query,
\* whose result is cached for ttl_seconds.
GetProductsFromActiveRetailers(prods, cache, now, fail) ==
  LET cached_result == CacheGet(cache, now)
  IN IF cached_result # << >>
     THEN [exc |-> None, list |-> cached_result[1], cache |-> cache]
     ELSE IF fail
     THEN [exc |-> "SQLAlchemyError", list |-> << >>,
           cache |-> CacheAfterGet(cache, now)]
     ELSE LET ps == ProductsFromActiveRetailers(prods)
          IN [exc |-> None, list |-> ps, cache |-> CacheSet(ps, now, ttl_seconds)]

\* discover_products_and_add_to_db, lines 282-312: the links of one page in
\* order; an exception of the repository ends the page.
RECURSIVE DiscoverLinks(_, _, _, _, _)
DiscoverLinks(prods, links, k, m, now) ==
  IF k > Len(links) THEN prods
  ELSE LET r == DiscoverUrl(prods, UrlJoin(Minoristas[m].url_base, links[k]),
                            m, now, FALSE)
       IN IF r.exc = None THEN DiscoverLinks(r.rows, links, k + 1, m, now)
          ELSE r.rows

\* BatchProcessor.process_products_in_batches on a list that fits one
\* chunk (batch_size is 50): scrape_products_concurrently publishes
\* scraping_started, every product of the list is scraped in a session of
\* its own, scraping_completed is published with the results.
RECURSIVE ScrapeAll(_, _, _, _, _)
ScrapeAll(st, list, k, failing, page) ==
  IF k > Len(list) THEN st
  ELSE LET row == st.productos[list[k]]
           r == ScrapeProductFromPage(st.productos, st.historial, st.events,
                                      row.product_url,
                                      Minoristas[row.id_minorista], page,
                                      IF list[k] \in failing THEN "goto" ELSE "none",
                                      st.now)
       IN ScrapeAll([productos |-> r.productos, historial |-> r.historial,
                     events |-> r.events, now |-> st.now,
                     results |->
                       IF r.exc = NoExc
                       THEN [st.results EXCEPT !.successful = @ + 1]
                       ELSE RecordFailure(st.results,
                                          [product_id |-> list[k],
                                           product_name |-> row.name,
                                           error |-> r.exc])],
                    list, k + 1, failing, page)

ProcessProductsInBatches(prods, hist, evts, list, failing, page, now) ==
  LET started == Publish(evts,
                         MkEvent("scraping_started", "concurrent_scraper",
                                 [products_count |-> Len(list),
                                  concurrent_browsers |-> max_concurrent_browsers]))
      st == ScrapeAll([productos |-> prods, historial |-> hist,
                       events |-> started, now |-> now,
                       results |-> EmptyResults(Len(list))],
                      list, 1, failing, page)
  IN [st EXCEPT !.events = Publish(st.events,
                                   MkEvent("scraping_completed",
                                           "concurrent_scraper", st.results))]

\* A completion event published only when the try block runs to its end.
AfterTryOnly(exit) == exit = "end"

\* Lines 83-99: the finally clause runs however the try block is left.
InFinally(exit) == TRUE

\* Lines 88-98; the rate is a float in the code, an integer here.
CompletionEvent(duration, processed, errors) ==
  MkEvent("scraping_completed", "scheduler",
          [duration_seconds |-> duration,
           products_processed |-> processed,
           errors_count |-> errors,
           success_rate |-> IF processed > 0
                            THEN ((processed - errors) * 100) \div processed
                            ELSE 0])

\* Lines 26-44: the trigger fires (the first run at start-up, the k-th
\* later one k hours after it, or as soon as the run before it has ended)
\* and scraping_started is published.
JobStart ==
  /\ jpc = "idle"
  /\ jruns < MaxJobRuns
  /\ jruns' = jruns + 1
  /\ LET fire == jruns * interval_seconds
         start_time == IF clock >= fire THEN clock ELSE fire
     IN /\ clock' = start_time
        /\ jlocal' = [start_time |-> start_time, mark |-> Len(event_history),
                      created |-> {}, listed |-> FALSE,
                      productos_activos |-> << >>, scraped |-> {},
                      products_processed |-> 0, errors_count |-> 0,
                      exit |-> "end"]
        /\ event_history' = Publish(event_history,
                                    MkEvent("scraping_started", "scheduler",
                                            [timestamp |-> start_time]))
  /\ jpc' = "discovery"
  /\ UNCHANGED <<productos, historial, svars, bvars, dvars, evars, ovars,
                 query_cache, gvars>>

\* Line 48: discover_products_and_add_to_db.  The listing page of retailer
\* m shows the links, the other listing pages show none; a browser that
\* fails to launch ends the discovery in its except clause.  No exception
\* leaves the function.
JobDiscovery(m, links, fail, dt) ==
  /\ jpc = "discovery"
  /\ fail => links = << >>
  /\ clock' = clock + dt
  /\ productos' = IF fail THEN productos
                  ELSE DiscoverLinks(productos, links, 1, m, clock + dt)
  /\ jlocal' = [jlocal EXCEPT
                  !.created = (1..Len(productos')) \ (1..Len(productos))]
  /\ jpc' = "listing"
  /\ UNCHANGED <<historial, event_history, svars, bvars, dvars, evars, ovars,
                 jruns, query_cache, gvars>>

\* Lines 50-62: the product list; an exception of the query is caught by
\* line 76, an empty list returns.
JobListing(fail) ==
  /\ jpc = "listing"
  /\ LET r == GetProductsFromActiveRetailers(productos, query_cache, clock, fail)
     IN /\ query_cache' = r.cache
        /\ IF r.exc # None
           THEN /\ jlocal' = [jlocal EXCEPT !.exit = "except"]
                /\ jpc' = "finally"
           ELSE /\ jlocal' = [jlocal EXCEPT
                                !.listed = TRUE,
                                !.productos_activos = r.list,
                                !.exit = IF r.list = << >> THEN "return" ELSE @]
                /\ jpc' = IF r.list = << >> THEN "finally" ELSE "batch"
  /\ UNCHANGED <<dbvars, svars, bvars, dvars, evars, ovars, jruns, gvars>>

\* Lines 64-79: the batch processor scrapes the list and its counters are
\* read; an exception raised on the way is caught by line 76.
JobBatch(page, failing, raises) ==
  /\ jpc = "batch"
  /\ raises => failing = {}
  /\ IF raises
     THEN /\ jlocal' = [jlocal EXCEPT !.exit = "except"]
          /\ UNCHANGED <<productos, historial, event_history>>
     ELSE LET r == ProcessProductsInBatches(productos, historial, event_history,
                                            jlocal.productos_activos, failing,
                                            page, clock)
          IN /\ productos' = r.productos
             /\ historial' = r.historial
             /\ event_history' = r.events
             /\ jlocal' = [jlocal EXCEPT
                             !.scraped = SeqToSet(jlocal.productos_activos),
                             !.products_processed = r.results.successful,
                             !.errors_count = r.results.failed]
  /\ jpc' = "finally"
  /\ UNCHANGED <<clock, svars, bvars, dvars, evars, ovars, jruns, query_cache,
                 gvars>>

\* Lines 83-99: scraping_completed is published and the job ends.
JobFinally ==
  /\ jpc = "finally"
  /\ event_history' =
       IF InFinally(jlocal.exit)
       THEN Publish(event_history,
                    CompletionEvent(clock - jlocal.start_time,
                                    jlocal.products_processed,
                                    jlocal.errors_count))
       ELSE event_history
  /\ jpc' = "idle"
  /\ UNCHANGED <<productos, historial, clock, svars, bvars, dvars, evars, ovars,
                 jruns, jlocal, query_cache, gvars>>

(***************************************************************************)
(* GracefulShutdownManager                                                 *)
(***************************************************************************)
\* Callables a caller registers: a plain function and a coroutine function.
Callbacks == {"sync_callback", "async_callback"}

\* asyncio.iscoroutinefunction(callback)
IsCoroutineFunction(callback) == callback = "async_callback"

\* How the call of a callback ends; only an awaited one can time out.
CallbackOutcomes(callback) ==
  IF IsCoroutineFunction(callback)
  THEN {"returns", "Exception", "TimeoutError"}
  ELSE {"returns", "Exception"}

\* A loop that catches the timeout only.
CaughtTimeoutOnly(outcome) == outcome = "TimeoutError"

\* Lines 47-50: the except clauses inside the for loop.
CaughtInLoop(outcome) == outcome \in {"TimeoutError", "Exception"}

\* register_shutdown_callback: the list takes the callable, also one that
\* is in it already, at any time.
RegisterShutdownCallback(callback) ==
  /\ Len(shutdown_callbacks) < MaxCallbacks
  /\ shutdown_callbacks' = Append(shutdown_callbacks, callback)
  /\ UNCHANGED <<dbvars, svars, bvars, dvars, evars, ovars, jvars,
                 is_shutting_down, shutdown_event, gpc, gi, executed, gcalls>>

\* Lines 29-36: a call of shutdown() returns at once if one was made
\* before, else it sets the flag and enters the loop.
ShutdownCall ==
  /\ gcalls < MaxShutdownCalls
  /\ gcalls' = gcalls + 1
  /\ IF is_shutting_down
     THEN UNCHANGED <<is_shutting_down, gpc, gi>>
     ELSE /\ is_shutting_down' = TRUE
          /\ gpc' = "loop"
          /\ gi' = 0
  /\ UNCHANGED <<dbvars, svars, bvars, dvars, evars, ovars, jvars,
                 shutdown_callbacks, shutdown_event, executed>>

\* Lines 40-50: the next callback of the list is called, awaited under
\* wait_for if it is a coroutine function; what it raises is logged.
RunCallback(outcome) ==
  /\ gpc = "loop"
  /\ gi < Len(shutdown_callbacks)
  /\ outcome \in CallbackOutcomes(shutdown_callbacks[gi + 1])
  /\ executed' = Append(executed, [callback |-> shutdown_callbacks[gi + 1],
                                   awaited |-> IsCoroutineFunction(shutdown_callbacks[gi + 1]),
                                   outcome |-> outcome])
  /\ gi' = gi + 1
  /\ IF outcome = "returns" \/ CaughtInLoop(outcome)
     THEN UNCHANGED <<gpc, shutdown_event>>
     ELSE gpc' = "returned" /\ shutdown_event' = TRUE
  /\ UNCHANGED <<dbvars, svars, bvars, dvars, evars, ovars, jvars,
                 shutdown_callbacks, is_shutting_down, gcalls>>

\* Lines 52-69: the list is used up; the cleanup tasks are cancelled and
\* the engine is disposed.
ShutdownCleanup ==
  /\ gpc = "loop"
  /\ gi = Len(shutdown_callbacks)
  /\ gpc' = "cleanup"
  /\ UNCHANGED <<dbvars, svars, bvars, dvars, evars, ovars, jvars,
                 shutdown_callbacks, is_shutting_down, shutdown_event, gi,
                 executed, gcalls>>

\* Lines 71-76: shutdown() ends, whether or not the disposal raised, and
\* the event is set.
ShutdownReturn ==
  /\ gpc = "cleanup"
  /\ gpc' = "returned"
  /\ shutdown_event' = TRUE
  /\ UNCHANGED <<dbvars, svars, bvars, dvars, evars, ovars, jvars,
                 shutdown_callbacks, is_shutting_down, gi, executed, gcalls>>

InitDb ==
  /\ productos = << >>
  /\ historial = << >>
  /\ event_history = << >>
  /\ clock = 0

InitScrape ==
  /\ spc = "idle"
  /\ sreq = [product_url |-> "u1", id_minorista |-> 1, max_retries |-> 0]
  /\ attempt = 0
  /\ calls = 0
  /\ sleeps = << >>
  /\ last_exception = NoExc
  /\ raised = NoExc
  /\ first_obs = << >>
  /\ last_obs = << >>
  /\ runs = 0
  /\ retval = NoId

\* ConcurrentScraper.__init__ / BatchProcessor.__init__ and no run started.
InitBatch ==
  /\ products = << >>
  /\ batch_size = 1
  /\ bpc = "idle"
  /\ bi = 0
  /\ results = EmptyResults(0)
  /\ total_results = EmptyTotals(0)
  /\ tstate = << >>
  /\ toutcome = << >>
  /\ texc = << >>
  /\ tattempts = << >>
  /\ semaphore = SemaphoreSize(max_concurrent_browsers,
                               max_concurrent_per_browser)
  /\ browser_semaphore = BrowserSemaphoreSize(max_concurrent_browsers,
                                               max_concurrent_per_browser)
  /\ cancel_requested = FALSE

\* No discovery run started.
InitDiscovery ==
  /\ dpc = "idle"
  /\ dqueue = << >>
  /\ dcur = NoId
  /\ dlinks = << >>
  /\ dk = 0
  /\ dstatus = "ok"
  /\ druns = 0
  /\ dscrapes = 0

\* EventBus.__init__
InitBus ==
  /\ handlers = [t \in BusEventTypes |-> << >>]
  /\ ppc = "idle"
  /\ psubscribed = << >>
  /\ ptasks = << >>
  /\ nseq = 0
  /\ npublished = 0

\* No operation of the pair started.
InitRace ==
  /\ opc = [o \in Ops |-> "idle"]
  /\ olocal = [o \in Ops |-> NoLocal]
  /\ owrites = << >>

\* The scheduler has just started: no run yet, nothing cached.
InitJob ==
  /\ jpc = "idle"
  /\ jruns = 0
  /\ jlocal = [start_time |-> 0, mark |-> 0, created |-> {}, listed |-> FALSE,
               productos_activos |-> << >>, scraped |-> {},
               products_processed |-> 0, errors_count |-> 0, exit |-> "end"]
  /\ query_cache = NoCache

\* GracefulShutdownManager.__init__
InitShutdown ==
  /\ shutdown_callbacks = << >>
  /\ is_shutting_down = FALSE
  /\ shutdown_event = FALSE
  /\ gpc = "idle"
  /\ gi = 0
  /\ executed = << >>
  /\ gcalls = 0

InitX == InitDiscovery /\ InitBus /\ InitRace /\ InitJob /\ InitShutdown

Init == InitDb /\ InitScrape /\ InitBatch /\ InitX

NextScrape ==
  \/ \E u \in Urls, m \in MinoristaIds, n \in 0..MaxRetriesArg : StartScrape(u, m, n)
  \/ \E page \in Pages, f \in FailPoints : Attempt(page, f)
  \/ \E j \in Jitter : Backoff(j)

Spec == Init /\ [][NextScrape]_vars

\* The table as discovery and earlier runs left it: n products with
\* distinct URLs, those in noSelectors belonging to retailer 2.
InitBatchDb ==
  \E n \in 0..MaxProducts : \E noSelectors \in SUBSET (1..n) :
    /\ productos = [i \in 1..n |->
                      [product_url |-> BatchUrls[i],
                       id_minorista |-> IF i \in noSelectors THEN 2 ELSE 1,
                       name |-> "Producto Desconocido", price |-> 0,
                       image_url |-> None, last_scraped_at |-> 0]]
    /\ historial = << >>
    /\ event_history = << >>
    /\ clock = 1

InitB == InitBatchDb /\ InitScrape /\ InitBatch /\ InitX

NextBatch ==
  \/ \E b \in 1..MaxBatchSize : StartRun(b)
  \/ BeginChunk
  \/ \E t \in 1..MaxProducts : AcquireSlot(t)
  \/ \E t \in 1..MaxProducts : AcquireBrowser(t)
  \/ \E t \in 1..MaxProducts, page \in BatchPages, f \in BatchFailPoints :
       ScrapeItem(t, page, f)
  \/ \E t \in 1..MaxProducts : CloseBrowser(t)
  \/ \E t \in 1..MaxProducts : CloseSession(t)
  \/ CancelRun
  \/ \E t \in 1..MaxProducts : TaskCancelled(t)
  \/ GatherCancelled
  \/ FinishChunk
  \/ InterBatchSleep
  \/ ReturnRun

SpecBatch == InitB /\ [][NextBatch]_vars

\* The steps the event loop takes on its own once a run has been started
\* and nothing cancels it.
ChunkProgress ==
  \/ BeginChunk
  \/ \E t \in 1..MaxProducts : AcquireSlot(t)
  \/ \E t \in 1..MaxProducts : AcquireBrowser(t)
  \/ \E t \in 1..MaxProducts, page \in BatchPages, f \in BatchFailPoints :
       ScrapeItem(t, page, f)
  \/ \E t \in 1..MaxProducts : CloseBrowser(t)
  \/ \E t \in 1..MaxProducts : CloseSession(t)
  \/ FinishChunk
  \/ InterBatchSleep
  \/ ReturnRun

NextBatchLive ==
  \/ \E b \in 1..MaxBatchSize : StartRun(b)
  \/ ChunkProgress

\* The table holds n placeholders of retailer 1, with distinct URLs.
InitBatchLiveDb ==
  \E n \in 0..MaxProducts :
    /\ productos = [i \in 1..n |-> Placeholder(BatchUrls[i], 1, 0)]
    /\ historial = << >>
    /\ event_history = << >>
    /\ clock = 1

InitL == InitBatchLiveDb /\ InitScrape /\ InitBatch /\ InitX

\* A run that is not cancelled, under an event loop that runs a task that
\* is ready and scrape operations that all end.
SpecBatchLive == InitL /\ [][NextBatchLive]_vars /\ WF_vars(ChunkProgress)

\* Discovery runs and single scrape operations on the same tables.
NextDiscovery ==
  \/ \E order \in Orders(RetailersWithDiscoveryConfig) : StartDiscovery(order)
  \/ \E anchors \in AnchorLists, fail \in BOOLEAN : OpenPage(anchors, fail)
  \/ \E fail \in BOOLEAN, continues \in BOOLEAN : DiscoverLink(fail, continues)
  \/ ClosePage
  \/ EndDiscovery
  \/ \E u \in Urls, m \in ScrapableRetailers, page \in BatchPages,
        f \in BatchFailPoints : ScrapeOperation(u, m, page, f)

SpecDiscovery == Init /\ [][NextDiscovery]_vars

NextBus ==
  \/ \E t \in BusEventTypes, h \in Handlers : Subscribe(t, h)
  \/ \E t \in BusEventTypes, h \in Handlers : Unsubscribe(t, h)
  \/ \E t \in BusEventTypes : PublishStart(t)
  \/ \E i \in 1..MaxSubscriptions, o \in HandlerOutcomes : RunHandler(i, o)
  \/ PublishReturn

SpecBus == Init /\ [][NextBus]_vars

\* A bus that is new, or that has published max_history - 1 events to no
\* handler.
InitBusHistory ==
  \E n \in {0, max_history - 1} :
    /\ event_history = [i \in 1..n |-> BusEvent("product_scraped", i)]
    /\ nseq = n
    /\ productos = << >>
    /\ historial = << >>
    /\ clock = 0
    /\ handlers = [t \in BusEventTypes |-> << >>]
    /\ ppc = "idle"
    /\ psubscribed = << >>
    /\ ptasks = << >>
    /\ npublished = 0

InitH ==
  /\ InitBusHistory /\ InitScrape /\ InitBatch /\ InitDiscovery /\ InitRace
  /\ InitJob /\ InitShutdown

\* Publishes around the point where the history is full, with one handler
\* subscribed to one of the event types or none.
NextHistory ==
  \/ Subscribe("product_scraped", "h1")
  \/ Unsubscribe("product_scraped", "h1")
  \/ \E t \in BusEventTypes : PublishStart(t)
  \/ \E i \in 1..MaxSubscriptions : RunHandler(i, "returns")
  \/ PublishReturn

SpecHistory == InitH /\ [][NextHistory]_vars

\* Runs of scraping_job one after the other, as the scheduler fires them.
NextJob ==
  \/ JobStart
  \/ \E m \in RetailersWithDiscoveryConfig, links \in JobLinks,
        fail \in BOOLEAN, dt \in DiscoveryDurations :
       JobDiscovery(m, links, fail, dt)
  \/ \E fail \in BOOLEAN : JobListing(fail)
  \/ \E page \in BatchPages, raises \in BOOLEAN,
        failing \in SUBSET SeqToSet(jlocal.productos_activos) :
       JobBatch(page, failing, raises)
  \/ JobFinally

SpecJob == Init /\ [][NextJob]_vars

\* Once started, scraping_job runs to its end: every awaited step returns
\* or raises.  The raising exit of the batch step is listed on its own
\* before the general one, so that TLC finds the step enabled without
\* computing a whole batch pass.
JobProgress ==
  \/ \E m \in RetailersWithDiscoveryConfig, links \in JobLinks,
        fail \in BOOLEAN, dt \in DiscoveryDurations :
       JobDiscovery(m, links, fail, dt)
  \/ \E fail \in BOOLEAN : JobListing(fail)
  \/ \E page \in BatchPages : JobBatch(page, {}, TRUE)
  \/ \E page \in BatchPages, raises \in BOOLEAN,
        failing \in SUBSET SeqToSet(jlocal.productos_activos) :
       JobBatch(page, failing, raises)
  \/ JobFinally

SpecJobLive == Init /\ [][NextJob]_vars /\ WF_vars(JobProgress)

\* Discovery has left the placeholder of u1 for retailer 4.
InitConflictDb ==
  /\ productos = << Placeholder("u1", 4, 0) >>
  /\ historial = << >>
  /\ event_history = << >>
  /\ clock = 1

InitC == InitConflictDb /\ InitScrape /\ InitBatch /\ InitX

\* scrape_product_data called on a table where a URL may belong to
\* another retailer.
SpecConflict == InitC /\ [][NextScrape]_vars

NextShutdown ==
  \/ \E callback \in Callbacks : RegisterShutdownCallback(callback)
  \/ ShutdownCall
  \/ \E outcome \in {"returns", "Exception", "TimeoutError"} : RunCallback(outcome)
  \/ ShutdownCleanup
  \/ ShutdownReturn

SpecShutdown == Init /\ [][NextShutdown]_vars

\* The product of the pair is new, or discovery has left its placeholder.
InitRaceDb ==
  /\ productos \in {<< >>, << Placeholder(race_url, race_minorista, 0) >>}
  /\ historial = << >>
  /\ event_history = << >>
  /\ clock = 1

InitR == InitRaceDb /\ InitScrape /\ InitBatch /\ InitX

NextRace ==
  \/ \E o \in Ops, page \in Pages : RaceStart(o, page)
  \/ \E o \in Ops : RaceLookup(o)
  \/ \E o \in Ops : RaceUpsertLookup(o)
  \/ \E o \in Ops : RaceWrite(o)
  \/ \E o \in Ops : RaceHistory(o)
  \/ \E o \in Ops : RacePublish(o)

SpecRace == InitR /\ [][NextRace]_vars

(***************************************************************************)
(* Properties of scrape_product_data (specification Spec).                 *)
(***************************************************************************)
\* An attempt of the scrape operation ended by raising.
AttemptFailed == spc = "attempt" /\ spc' \in {"sleep", "raised"}

\* C1: a scrape operation that fails leaves the tables productos and
\* historial_precios exactly as they were when it started, also when it
\* fails after its first committed write.
C1_FailedScrapeLeavesNoWrite ==
  [][AttemptFailed => (productos' = productos /\ historial' = historial)]_vars

\* C2: when every attempt raises, the wrapped function has been executed
\* max_retries + 1 times when the exception reaches the caller, and that
\* exception is the one of the last attempt.
C2_ExhaustedAfterNPlusOne ==
  spc = "raised" =>
    /\ calls = sreq.max_retries + 1
    /\ raised = last_exception
    /\ raised # NoExc

C2_Witness ==
  spc = "raised" /\ sreq.max_retries = 3 /\ calls = 4

\* C8: a validation error (retailer without name or price selector) ends
\* the call at once: the exception reaches the caller after the execution
\* that raised it, with no backoff sleep and no further attempt.
C8_ValidationErrorNotRetried ==
  last_exception.cause = "selectors" =>
    /\ spc = "raised"
    /\ calls = 1
    /\ sleeps = << >>

\* C9: every attempt of one call starts from the same persisted state:
\* the old price and the is-new flag that a later attempt observes are
\* those the first attempt observed.
C9_RetryObservesPreOperationState ==
  last_obs = first_obs

\* A scrape operation completes: the attempt returns the product.
ScrapeCompleted == spc = "attempt" /\ spc' = "returned"

\* Row of the (url, retailer) pair of the running call, NoId if none.
ScrapedRow(prods) ==
  GetByUrlAndRetailer(prods, sreq.product_url, sreq.id_minorista)

\* Events the step appended to the history of the bus.
NewEvents == SubSeq(event_history', Len(event_history) + 1, Len(event_history'))

PriceChangedIn(evts) == {k \in 1..Len(evts) : evts[k].type = "price_changed"}

\* C11: a completed scrape of a product whose stored price differs from
\* the scraped one publishes exactly one price_changed event carrying the
\* old price, the new price, their difference and the percentage of the
\* old price it amounts to; the scrape that creates the product publishes
\* none.
C11_PriceChangePublished ==
  [][ScrapeCompleted =>
       LET old == ScrapedRow(productos)
           pc == PriceChangedIn(NewEvents)
       IN IF old = NoId THEN pc = {}
          ELSE productos'[old].price # productos[old].price =>
                 \E k \in pc :
                   /\ pc = {k}
                   /\ NewEvents[k].data.old_price = productos[old].price
                   /\ NewEvents[k].data.new_price = productos'[old].price
                   /\ NewEvents[k].data.change_amount =
                        productos'[old].price - productos[old].price
                   /\ NewEvents[k].data.change_percentage * productos[old].price =
                        (productos'[old].price - productos[old].price) * 100]_vars

\* The stored product carries exactly what the page shows.
SameContent(row, m, page) ==
  LET x == Extract(m, page)
  IN row.name = x.name /\ row.price = x.price /\ row.image_url = x.image_url

\* C12: a scrape of a page that shows what the previous scrape of the same
\* (url, retailer) stored leaves name, price and image URL of the product
\* as they were, appends exactly one price-history row and publishes no
\* price_changed event.
C12_RescrapeUnchanged ==
  [][\A page \in Pages :
       LET old == ScrapedRow(productos)
       IN (/\ ScrapeCompleted
           /\ old # NoId
           /\ SameContent(productos[old], Minoristas[sreq.id_minorista], page)
           /\ Attempt(page, "none"))
          => /\ Len(productos') = Len(productos)
             /\ productos'[old].name = productos[old].name
             /\ productos'[old].price = productos[old].price
             /\ productos'[old].image_url = productos[old].image_url
             /\ Len(historial') = Len(historial) + 1
             /\ PriceChangedIn(NewEvents) = {}]_vars

\* Two completed scrapes of one product with the same price.
C12_Witness ==
  /\ spc = "returned"
  /\ Len(productos) = 1
  /\ Len(historial) = 2
  /\ historial[1].id_producto = historial[2].id_producto
  /\ historial[1].precio = historial[2].precio
  /\ productos[1].price = historial[2].precio

ProductsAt(prods, product_url, id_minorista) ==
  {i \in 1..Len(prods) : /\ prods[i].product_url = product_url
                         /\ prods[i].id_minorista = id_minorista}

ProductsWithUrl(prods, product_url) ==
  {i \in 1..Len(prods) : prods[i].product_url = product_url}

\* C14: products are keyed by (product URL, retailer id): no pair has two
\* rows, and a scrape operation that meets no failure of the environment
\* leaves a row for its own pair, also when another retailer already has a
\* product at that URL.
C14_KeyedByUrlAndRetailer ==
  [][\A u \in Urls, m \in ScrapableRetailers, page \in BatchPages :
       (dscrapes' = dscrapes + 1 /\ ScrapeOperation(u, m, page, "none")) =>
         /\ \A v \in Urls, n \in DOMAIN Minoristas :
              Cardinality(ProductsAt(productos', v, n)) <= 1
         /\ Cardinality(ProductsAt(productos', u, m)) = 1]_vars

\* A page of the discovery has been read to its end or left by an error
\* of the program itself (no failure of browser or database).
PageProcessed ==
  /\ dpc \in {"retailers", "done"}
  /\ dcur # NoId
  /\ dstatus \in {"ok", "IntegrityError"}

\* C19: once a retailer's page is processed, each distinct URL among its
\* links has exactly one product, however often the URL occurs.
C19_DiscoveryDeduplicates ==
  PageProcessed =>
    \A k \in 1..Len(dlinks) :
      Cardinality(ProductsWithUrl(productos, dlinks[k])) = 1

\* A link of the page was processed and found its product in the table.
RefreshStep ==
  /\ dpc = "links"
  /\ dk' = dk + 1
  /\ GetByUrlAndRetailer(productos, dlinks[dk + 1], dcur) # NoId

\* C20: when discovery finds the product of a link already stored for the
\* retailer, the step changes that row's last_scraped_at and nothing else:
\* no other field, no other row, no new product, no price-history row and
\* no event.
C20_DiscoveryRefreshOnly ==
  [][RefreshStep =>
       LET e == GetByUrlAndRetailer(productos, dlinks[dk + 1], dcur)
       IN /\ Len(productos') = Len(productos)
          /\ \A i \in 1..Len(productos) :
               IF i = e
               THEN productos'[i] = [productos[i] EXCEPT !.last_scraped_at = clock]
               ELSE productos'[i] = productos[i]
          /\ historial' = historial
          /\ event_history' = event_history]_vars

\* Discovery has refreshed a product that a scrape operation had filled
\* in: the row keeps the scraped price and carries a later timestamp than
\* its price-history row.
C20_Witness ==
  /\ dpc = "links"
  /\ dk >= 1
  /\ \E i \in 1..Len(productos), h \in 1..Len(historial) :
       /\ productos[i].product_url = dlinks[dk]
       /\ productos[i].id_minorista = dcur
       /\ historial[h].id_producto = i
       /\ productos[i].price = historial[h].precio
       /\ productos[i].price > 0
       /\ productos[i].last_scraped_at > historial[h].fecha_registro

(***************************************************************************)
(* Properties of two concurrent scrape operations (specification SpecRace).*)
(***************************************************************************)
\* C15: once two concurrent scrape operations on the same (url, retailer)
\* have ended, neither has failed, both product writes were applied, and
\* the product carries the name, price and image URL that the operation
\* which wrote last extracted.
C15_LastWriteWins ==
  (\A o \in Ops : opc[o] \in {"done", "failed"}) =>
    /\ \A o \in Ops : opc[o] = "done"
    /\ Len(owrites) = 2
    /\ LET row == productos[GetByUrlAndRetailer(productos, race_url,
                                                race_minorista)]
       IN SameContent(row, Minoristas[race_minorista],
                      olocal[owrites[Len(owrites)]].page)

(***************************************************************************)
(* Properties of the event bus (specifications SpecBus and SpecHistory).   *)
(***************************************************************************)
\* C16: publish never raises to its caller, and when it returns every
\* entry of the list that was subscribed to the event's type when it was
\* called has had its handler called exactly once, whatever the calls of
\* the other handlers did.
C16_PublishIsolatesHandlers ==
  /\ ppc # "raised"
  /\ ppc = "returned" =>
       /\ Len(ptasks) = Len(psubscribed)
       /\ \A i \in 1..Len(psubscribed) :
            /\ ptasks[i].handler = psubscribed[i]
            /\ ptasks[i].calls = 1
            /\ ptasks[i].state \in {"ok", "caught", "raised"}

\* publish has returned after one handler raised and another one ran.
C16_Witness ==
  /\ ppc = "returned"
  /\ Len(ptasks) = 2
  /\ ptasks[1].handler # ptasks[2].handler
  /\ ptasks[1].state = "caught"
  /\ ptasks[2].state = "ok"

\* C17: the history of the bus never holds more than max_history events,
\* and it holds the most recently published ones in the order of their
\* publication, whether or not a handler was subscribed to their type.
C17_HistoryKeepsLatest ==
  /\ Len(event_history) <= max_history
  /\ Len(event_history) = Min(nseq, max_history)
  /\ \A i \in 1..Len(event_history) :
       event_history[i].data.seq = nseq - Len(event_history) + i

\* The history is full, its oldest event has been dropped, and the latest
\* event is of a type nobody is subscribed to.
C17_Witness ==
  /\ Len(event_history) = max_history
  /\ event_history[1].data.seq = 2
  /\ event_history[max_history].type = "price_changed"
  /\ handlers["price_changed"] = << >>

(***************************************************************************)
(* Properties of the batch processor (specification SpecBatch).            *)
(***************************************************************************)
Items == DOMAIN tstate

\* The task of item t is inside "async with semaphore".
HoldsSlot(t) == tstate[t] \in {"slot", "browser", "closing", "session"}

SlotsHeld == Cardinality({t \in Items : HoldsSlot(t)})

BrowsersHeld == Cardinality({t \in Items : tstate[t] \in {"browser", "closing"}})

\* Chunk (from 0) that position t of the list falls in.
BatchOf(t) == (t - 1) \div batch_size

Raised == {t \in Items : toutcome[t] = "raised"}

Entries(errors, t) ==
  Cardinality({k \in 1..Len(errors) : errors[k].product_id = products[t]})

CeilDiv(n, b) == CHOOSE q \in 0..n : q * b >= n /\ (q = 0 \/ (q - 1) * b < n)

\* C3: at every moment the number of scrape operations that hold a slot of
\* the chunk's semaphore is at most
\* max_concurrent_browsers * max_concurrent_per_browser.
C3_SlotsBounded ==
  SlotsHeld <= max_concurrent_browsers * max_concurrent_per_browser

\* A chunk larger than the semaphore: every slot is taken and a task waits.
C3_Witness ==
  /\ SlotsHeld = max_concurrent_browsers * max_concurrent_per_browser
  /\ \E t \in Items : tstate[t] = "created"

\* C4: once every operation has ended (returned, raised or cancelled), no
\* page slot and no browser slot is held: both semaphores are back at
\* their full capacity.
C4_SlotsReleased ==
  (\A t \in Items : tstate[t] \in {"none", "done"}) =>
    /\ semaphore = max_concurrent_browsers * max_concurrent_per_browser
    /\ browser_semaphore = max_concurrent_browsers

\* A chunk has ended with one operation returned, one raised and one
\* cancelled while it held a slot.
C4_Witness ==
  /\ bpc = "cancelled"
  /\ \A t \in Items : tstate[t] \in {"none", "done"}
  /\ \E a, b, c \in Items :
       /\ toutcome[a] = "ok" /\ toutcome[b] = "raised"
       /\ toutcome[c] = "cancelled" /\ tattempts[c] = 0 /\ tattempts[b] = 1

\* C5: no operation of a later chunk has started while an operation of an
\* earlier chunk has not finished.
C5_ChunksSequential ==
  \A i, j \in Items :
    (BatchOf(i) < BatchOf(j) /\ tstate[j] # "none") => tstate[i] = "done"

\* The second chunk runs after a first chunk whose second item finished
\* (and recorded its failure) before its first item.
C5_Witness ==
  /\ batch_size = 2 /\ Len(products) = 3
  /\ tstate[3] \in {"slot", "browser", "closing", "session"}
  /\ Len(total_results.errors) = 2
  /\ total_results.errors[1].product_id = products[2]
  /\ total_results.errors[2].product_id = products[1]

\* C6: an operation that raises is counted once in failed and has exactly
\* one entry in the error list; it stops no other operation: a run that is
\* not cancelled ends with every item of every chunk either returned or
\* raised.
C6_FailureCaptured ==
  /\ (bpc = "gather" /\ ~cancel_requested) =>
       /\ results.failed =
            Cardinality({t \in CurrentBatch : t \in Raised /\ tstate[t] = "done"})
       /\ Len(results.errors) = results.failed
       /\ \A t \in CurrentBatch :
            Entries(results.errors, t) =
              IF t \in Raised /\ tstate[t] = "done" THEN 1 ELSE 0
  /\ bpc = "done" =>
       /\ \A t \in Items : tstate[t] = "done" /\ toutcome[t] \in {"ok", "raised"}
       /\ \A t \in Items :
            Entries(total_results.errors, t) = IF t \in Raised THEN 1 ELSE 0

\* The first item of the first chunk raised; its sibling and the item of
\* the next chunk returned.
C6_Witness ==
  /\ bpc = "done" /\ batch_size = 2
  /\ toutcome = <<"raised", "ok", "ok">>
  /\ Len(total_results.errors) = 1

C10_BatchItemRetried ==
  \A t \in Items :
    (tstate[t] = "done" /\ toutcome[t] = "raised" /\ texc[t].cause = "goto"
       /\ Entries(results.errors, t) + Entries(total_results.errors, t) > 0)
      => tattempts[t] >= 2


EventsOfType(type) ==
  {k \in 1..Len(event_history) : event_history[k].type = type}

\* C18: in a run of the batch processor a scraping_started event precedes
\* every product_scraped event, and once the run has returned the latest
\* scraping_completed event carries the totals of the whole run.
C18_RunEventsCarryTotals ==
  /\ \A k \in EventsOfType("product_scraped") :
       \E j \in EventsOfType("scraping_started") : j < k
  /\ (bpc = "done" /\ products # << >>) =>
       /\ EventsOfType("scraping_completed") # {}
       /\ LET last == CHOOSE k \in EventsOfType("scraping_completed") :
                        \A j \in EventsOfType("scraping_completed") : j <= k
              d == event_history[last].data
          IN /\ last = Len(event_history)
             /\ d.total_products = total_results.total_products
             /\ d.successful = total_results.successful
             /\ d.failed = total_results.failed

(***************************************************************************)
(* Properties of scraping_job (SpecJob)                                    *)
(***************************************************************************)
\* Placeholders the discovery of the current run created for retailers
\* that are active.
CreatedForActive ==
  {i \in jlocal.created : Minoristas[productos[i].id_minorista].activo}

\* A run has ended whose product query and batch processing raised nothing.
RunEndedCleanly ==
  /\ jpc = "idle"
  /\ jruns > 0
  /\ jlocal.exit \in {"end", "return"}

\* C21: when a run of scraping_job ends without an exception, every
\* placeholder that its discovery created for an active retailer is among
\* the products its batch pass scraped.
C21_DiscoveredAreScraped ==
  RunEndedCleanly => CreatedForActive \subseteq jlocal.scraped

(***************************************************************************)
(* Properties of scrape_product_data on a conflicting table (SpecConflict) *)
(***************************************************************************)
\* The IntegrityError of the product insert, as _scrape_product_internal
\* raises it.
IsIntegrityError(exc) == exc.status = 400 /\ exc.cause = "upsert"

\* C22: an IntegrityError ends the call at once: the table is as it was,
\* and the exception reaches the caller after the execution that raised
\* it, with no backoff sleep and no further attempt.
C22_IntegrityErrorNotRetried ==
  IsIntegrityError(last_exception) =>
    /\ spc = "raised"
    /\ calls = 1
    /\ sleeps = << >>

(***************************************************************************)
(* Properties of the synchronous trigger (Spec)                            *)
(***************************************************************************)
\* C23: when activar_scraper runs the scrape of a retailer whose selectors
\* are incomplete, the call ends with status 400 and without a backoff
\* sleep.
C23_TriggerAnswers400 ==
  ( /\ spc = "raised"
    /\ sreq.max_retries = default_max_retries
    /\ raised.cause = "selectors" ) =>
  ( /\ ActivarScraperStatus(raised) = 400
    /\ sleeps = << >> )

\* product_scraped events of a product whose stored price was 0 and whose
\* scraped price is not.
ScrapedFromZero ==
  {k \in 1..Len(event_history) :
     /\ event_history[k].type = "product_scraped"
     /\ event_history[k].data.old_price = 0
     /\ event_history[k].data.price # 0}

\* C24: the product_scraped event of a product whose previous price was 0
\* and whose scraped price differs is followed in the history by the one
\* price_changed event its handler derives, with change_amount equal to the
\* new price and change_percentage 0.
C24_ZeroOldPriceGuarded ==
  \A k \in ScrapedFromZero :
    /\ k < Len(event_history)
    /\ event_history[k + 1].type = "price_changed"
    /\ event_history[k + 1].data.product_id = event_history[k].data.product_id
    /\ event_history[k + 1].data.old_price = 0
    /\ event_history[k + 1].data.change_amount = event_history[k].data.price
    /\ event_history[k + 1].data.change_percentage = 0

(***************************************************************************)
(* Properties of GracefulShutdownManager (SpecShutdown)                    *)
(***************************************************************************)
\* The callbacks called so far are the first registrations, in the order
\* of registration, each called once, awaited if a coroutine function.
ExecutedInOrder ==
  /\ Len(executed) <= Len(shutdown_callbacks)
  /\ \A k \in 1..Len(executed) :
       /\ executed[k].callback = shutdown_callbacks[k]
       /\ executed[k].awaited = IsCoroutineFunction(shutdown_callbacks[k])

\* C25: the first call of shutdown() sets is_shutting_down and calls every
\* registered callback in registration order, going on after one that
\* raised or timed out; when its loop ends every registration has been
\* called once, and no later call of shutdown() calls any of them again.
C25_ShutdownRunsEachCallbackOnce ==
  /\ [](ExecutedInOrder /\ (gcalls > 0 => is_shutting_down))
  /\ [][gpc = "loop" /\ gpc' # "loop"
          => executed' = executed /\ Len(executed) = Len(shutdown_callbacks)]_vars
  /\ [][gpc # "loop" => executed' = executed]_vars

\* shutdown() was called twice; the first callback raised, the second one,
\* a coroutine function, still ran, and both runs are the only ones.
C25_Witness ==
  /\ gcalls = 2
  /\ gpc = "returned"
  /\ Len(executed) = 2
  /\ executed[1].outcome = "Exception"
  /\ ~executed[1].awaited
  /\ executed[2].awaited
  /\ executed[2].outcome = "returns"

(***************************************************************************)
(* Properties of the browser semaphore (SpecBatch)                         *)
(***************************************************************************)
\* C26: at every moment at most max_concurrent_browsers tasks of the
\* scraper are between the launch and the close of their browser, in every
\* chunk of the run, while more tasks than that may hold a page slot.
C26_BrowsersBounded ==
  /\ BrowsersHeld <= max_concurrent_browsers
  /\ browser_semaphore >= 0

\* Every browser slot is taken while more tasks than browsers hold a page
\* slot, one of them waiting for a browser.
C26_Witness ==
  /\ BrowsersHeld = max_concurrent_browsers
  /\ SlotsHeld > max_concurrent_browsers
  /\ \E t \in Items : tstate[t] = "slot"

(***************************************************************************)
(* Termination of a chunk (SpecBatchLive)                                  *)
(***************************************************************************)
\* The task of item t has ended after one scrape, returned or raised.
EndedAfterScrape(t) ==
  /\ tstate[t] = "done"
  /\ toutcome[t] \in {"ok", "raised"}
  /\ tattempts[t] = 1

C28_RetryCounts ==
  /\ spc = "returned" =>
       /\ calls = attempt + 1
       /\ Len(sleeps) = calls - 1
       /\ calls <= sreq.max_retries + 1
       /\ retval # NoId
       /\ retval = GetByUrlAndRetailer(productos, sreq.product_url,
                                       sreq.id_minorista)
  /\ spc = "raised" =>
       /\ calls = sreq.max_retries + 1
       /\ Len(sleeps) = sreq.max_retries
       /\ retval = NoId

\* A call with max_retries = 3 has returned on its third execution.
C28_Witness ==
  /\ spc = "returned"
  /\ sreq.max_retries = 3
  /\ calls = 3
  /\ Len(sleeps) = 2

\* The call has returned the product of a scrape that found another price
\* stored than the one it extracted.
ReturnedWithPriceChange ==
  /\ spc = "returned"
  /\ last_obs # << >>
  /\ last_obs[1].old_price # NoPrice
  /\ last_obs[1].old_price # productos[retval].price

\* C29: when a scrape that changed the price returns, the product and its
\* price-history row are committed, and the bus history ends with the
\* product_scraped event of the scrape followed by the price_changed event
\* its handler derived: both publications, handlers included, are over.
C29_EventsInOrder ==
  ReturnedWithPriceChange =>
    LET n == Len(event_history)
    IN /\ historial # << >>
       /\ historial[Len(historial)].id_producto = retval
       /\ historial[Len(historial)].precio = productos[retval].price
       /\ n >= 2
       /\ event_history[n - 1].type = "product_scraped"
       /\ event_history[n - 1].data.product_id = retval
       /\ event_history[n - 1].data.price = productos[retval].price
       /\ event_history[n].type = "price_changed"
       /\ event_history[n].data.product_id = retval

\* The events published since the current run of scraping_job started.
RunEvents == SubSeq(event_history, jlocal.mark + 1, Len(event_history))

FromScheduler(e, type) == e.type = type /\ e.source = "scheduler"

SchedulerEventsIn(evts, type) ==
  Cardinality({k \in 1..Len(evts) : FromScheduler(evts[k], type)})

\* C30: the events of a run begin with the scheduler's scraping_started,
\* which is the only one of the run; while the run lasts no scheduler
\* scraping_completed is published; every run ends, and when it has ended
\* its last event is the scheduler's scraping_completed, the only one of the
\* run, whichever way the try block was left.
C30_JobStartsAndCompletes ==
  /\ [](jruns > 0 =>
          /\ RunEvents # << >>
          /\ FromScheduler(RunEvents[1], "scraping_started")
          /\ SchedulerEventsIn(RunEvents, "scraping_started") = 1
          /\ jpc # "idle" =>
               SchedulerEventsIn(RunEvents, "scraping_completed") = 0
          /\ jpc = "idle" =>
               /\ FromScheduler(RunEvents[Len(RunEvents)], "scraping_completed")
               /\ SchedulerEventsIn(RunEvents, "scraping_completed") = 1)
  /\ (jpc # "idle") ~> (jpc = "idle")

\* A second run has ended after a failed listing or batch, with its two
\* scheduler events and nothing between them, the first run having scraped.
C30_Witness ==
  /\ jruns = 2
  /\ jpc = "idle"
  /\ jlocal.exit = "except"
  /\ Len(RunEvents) = 2
  /\ jlocal.mark > 2
  /\ FromScheduler(RunEvents[2], "scraping_completed")

\* A run has ended through the early return on an empty product list.
C30_WitnessReturn ==
  /\ jruns > 0
  /\ jpc = "idle"
  /\ jlocal.exit = "return"
  /\ FromScheduler(RunEvents[Len(RunEvents)], "scraping_completed")

====
